---- MODULE Spec2Model ----
(***************************************************************************)
(* habrArticleDownloader: a model of the two command line programs of the  *)
(* repository (EPUB mode: src/main.go, Markdown mode:                      *)
(* src/unnamed/part_001) and of their pure helpers.                        *)
(*                                                                         *)
(* Strings are sequences of characters; a character is a one-character     *)
(* string, or a code point name such as "U+00A0" for a character that has  *)
(* no printable form.                                                      *)
(***************************************************************************)
EXTENDS Integers, Sequences, FiniteSets, TLC

VARIABLES
    \* sanitizeFileName applied to an input (and to its own result)
    sanIn, sanOut, sanOut2, sanPc,
    \* the extension chosen for one fetched image
    extCt, extPath, extOut, extPc,
    \* the invocations of the program: what each is given
    procs,          \* the invocations that run
    mode,           \* mode[p]: "epub" (src/main.go) or "md" (part_001)
    articleTitle,   \* articleTitle[p]: article.Title as readability returns it
    imgs,           \* imgs[p]: the img elements of article.Content, by position
    \* the locals of main
    pc,             \* pc[p]: the step main is at
    title,          \* title[p]: the local title of the EPUB program
    doc,            \* doc[p]: the img elements of the goquery document
    idx,            \* idx[p]: the position Each is at
    imgCounter,     \* imgCounter[p]
    cur,            \* cur[p]: the image fetched and not yet stored
    epubImages,     \* epubImages[p]: internal file name -> the bytes of its source
    sanArg,         \* sanArg[p]: the string given to sanitizeFileName
    exitCode,       \* exitCode[p]: -1 while running, then 0 or 1
    pageStatus,     \* pageStatus[p]: the status of the page fetch, -1 before it
    \* the file systems the invocations share
    tmpfs,          \* os.TempDir(): file name -> content
    outfs,          \* the -out directory: file name -> what was written
    \* history
    failStep,       \* failStep[p]: the step that ended the run with exit 1
    log,            \* log[p]: the steps taken, in order
    visited,        \* visited[p]: the positions the Each callback ran for
    outcome,        \* outcome[p]: how the callback ended, by position
    assigned        \* assigned[p]: the image names given, in order

sanVars == <<sanIn, sanOut, sanOut2, sanPc>>
extVars == <<extCt, extPath, extOut, extPc>>
inVars == <<procs, mode, articleTitle, imgs>>
passVars == <<doc, idx, imgCounter, cur, epubImages, tmpfs, visited, outcome,
              assigned>>
exitVars == <<pc, exitCode, failStep>>
runVars == <<inVars, title, passVars, sanArg, outfs, exitVars, log, pageStatus>>
vars == <<sanVars, extVars, runVars>>

(***************************************************************************)
(* Bounds of the model.                                                    *)
(***************************************************************************)
MaxLen == 3        \* longest input string given to sanitizeFileName
MaxParts == 2      \* most fragments a Content-Type header is built from

(***************************************************************************)
(* Characters.                                                             *)
(***************************************************************************)
\* the control characters \x00-\x1F the model uses
ControlChars == {"U+0001", "\t", "\n", "U+000B", "\f", "\r", "U+001F"}

\* unicode.IsSpace, which strings.TrimSpace trims by
GoSpace == {"\t", "\n", "U+000B", "\f", "\r", " ", "U+0085", "U+00A0", "U+2003"}

\* the class \s of Go's regexp (RE2) syntax: [\t\n\f\r ]
ReSpace == {"\t", "\n", "\f", "\r", " "}

\* the class [<>:"/\\|?*\x00-\x1F] of sanitizeFileName
IllegalChars == {"<", ">", ":", "\"", "/", "\\", "|", "?", "*"} \cup ControlChars

\* the class [\s_] of sanitizeFileName
CollapseChars == ReSpace \cup {"_"}

(***************************************************************************)
(* sanitizeFileName                                                        *)
(***************************************************************************)
RECURSIVE TrimLeft(_)
TrimLeft(s) ==
    IF s # <<>> /\ Head(s) \in GoSpace THEN TrimLeft(Tail(s)) ELSE s

RECURSIVE TrimRight(_)
TrimRight(s) ==
    IF s # <<>> /\ s[Len(s)] \in GoSpace
    THEN TrimRight(SubSeq(s, 1, Len(s) - 1))
    ELSE s

\* strings.TrimSpace
TrimSpace(s) == TrimRight(TrimLeft(s))

\* illegal.ReplaceAllString(name, "_")
ReplaceIllegal(s) ==
    [i \in 1..Len(s) |-> IF s[i] \in IllegalChars THEN "_" ELSE s[i]]

\* collapse.ReplaceAllString(name, "_"): every maximal run of [\s_] becomes "_"
RECURSIVE Collapse(_)
Collapse(s) ==
    IF s = <<>> THEN <<>>
    ELSE IF Head(s) \in CollapseChars
         THEN IF Len(s) > 1 /\ s[2] \in CollapseChars
              THEN Collapse(Tail(s))
              ELSE <<"_">> \o Collapse(Tail(s))
         ELSE <<Head(s)>> \o Collapse(Tail(s))

\* a sanitizer that collapses before it replaces the illegal characters
sanitizeFileNameCollapseFirst(name) ==
    ReplaceIllegal(Collapse(TrimSpace(name)))

sanitizeFileName(name) == Collapse(ReplaceIllegal(TrimSpace(name)))

(***************************************************************************)
(* fetchBinary's extension guess, filepath.Ext and the fallback of main    *)
(***************************************************************************)
\* strings.Contains
Contains(s, sub) ==
    \E i \in 0..(Len(s) - Len(sub)) : SubSeq(s, i + 1, i + Len(sub)) = sub

\* the switch of fetchBinary over the Content-Type header
ContentTypeExt(ct) ==
    IF Contains(ct, <<"j", "p", "e", "g">>) \/ Contains(ct, <<"j", "p", "g">>)
    THEN <<".", "j", "p", "g">>
    ELSE IF Contains(ct, <<"p", "n", "g">>) THEN <<".", "p", "n", "g">>
    ELSE IF Contains(ct, <<"g", "i", "f">>) THEN <<".", "g", "i", "f">>
    ELSE IF Contains(ct, <<"w", "e", "b", "p">>) THEN <<".", "w", "e", "b", "p">>
    ELSE IF Contains(ct, <<"s", "v", "g">>) THEN <<".", "s", "v", "g">>
    ELSE <<>>

\* filepath.Ext: the suffix from the last dot of the last path element
RECURSIVE ExtFrom(_, _)
ExtFrom(path, i) ==
    IF i < 1 \/ path[i] = "/" THEN <<>>
    ELSE IF path[i] = "." THEN SubSeq(path, i, Len(path))
    ELSE ExtFrom(path, i - 1)

PathExt(path) == ExtFrom(path, Len(path))

\* an extension choice that prefers the extension of the URL path
ImageExtPathFirst(ct, path) ==
    IF PathExt(path) # <<>> THEN PathExt(path)
    ELSE IF ContentTypeExt(ct) # <<>> THEN ContentTypeExt(ct)
    ELSE <<".", "i", "m", "g">>

\* main: ext of fetchBinary, else the extension of the URL path, else ".img"
ImageExt(ct, path) ==
    IF ContentTypeExt(ct) # <<>> THEN ContentTypeExt(ct)
    ELSE IF PathExt(path) # <<>> THEN PathExt(path)
    ELSE <<".", "i", "m", "g">>

(***************************************************************************)
(* The states of the parts of the model a specification leaves out.        *)
(***************************************************************************)
SanIdle ==
    /\ sanIn = <<>> /\ sanOut = <<>> /\ sanOut2 = <<>> /\ sanPc = "off"

ExtIdle ==
    /\ extCt = <<>> /\ extPath = <<>> /\ extOut = <<>> /\ extPc = "off"

RunIdle ==
    /\ procs = {}
    /\ mode = <<>> /\ articleTitle = <<>> /\ imgs = <<>> /\ pc = <<>>
    /\ title = <<>> /\ doc = <<>> /\ idx = <<>> /\ imgCounter = <<>>
    /\ cur = <<>> /\ epubImages = <<>> /\ sanArg = <<>> /\ exitCode = <<>>
    /\ tmpfs = <<>> /\ outfs = <<>> /\ failStep = <<>> /\ log = <<>>
    /\ visited = <<>> /\ outcome = <<>> /\ assigned = <<>>
    /\ pageStatus = <<>>

(***************************************************************************)
(* SpecSan: sanitizeFileName applied to every string of at most MaxLen     *)
(* characters of SanAlphabet and to the title of the spec's example, then  *)
(* applied again to its own result.                                        *)
(***************************************************************************)
SanAlphabet == {"a", " ", "_", ":", "\t", "U+0001", "U+000B", "U+00A0"}

HelloWorldTest ==
    <<"H", "e", "l", "l", "o", ":", " ", "W", "o", "r", "l", "d", " ", "/",
      " ", "T", "e", "s", "t">>

SanInputs ==
    UNION {[1..n -> SanAlphabet] : n \in 0..MaxLen} \cup {HelloWorldTest}

SanInit ==
    /\ sanIn \in SanInputs
    /\ sanOut = <<>> /\ sanOut2 = <<>> /\ sanPc = "in"
    /\ ExtIdle /\ RunIdle

SanFirst ==
    /\ sanPc = "in"
    /\ sanOut' = sanitizeFileName(sanIn)
    /\ sanPc' = "once"
    /\ UNCHANGED <<sanIn, sanOut2, extVars, runVars>>

SanSecond ==
    /\ sanPc = "once"
    /\ sanOut2' = sanitizeFileName(sanOut)
    /\ sanPc' = "twice"
    /\ UNCHANGED <<sanIn, sanOut, extVars, runVars>>

SanNext == SanFirst \/ SanSecond

SpecSan == SanInit /\ [][SanNext]_vars

(***************************************************************************)
(* SpecExt: the extension of a fetched image, for every Content-Type made  *)
(* of at most MaxParts fragments and every URL path of UrlPaths.           *)
(***************************************************************************)
CtParts ==
    { <<"i", "m", "a", "g", "e", "/">>, <<"j", "p", "e", "g">>,
      <<"j", "p", "g">>, <<"p", "n", "g">>, <<"g", "i", "f">>,
      <<"w", "e", "b", "p">>, <<"s", "v", "g">>, <<"P", "N", "G">>,
      <<"t", "e", "x", "t">> }

RECURSIVE Flatten(_)
Flatten(parts) ==
    IF parts = <<>> THEN <<>> ELSE Head(parts) \o Flatten(Tail(parts))

ContentTypes ==
    {Flatten(ps) : ps \in UNION {[1..n -> CtParts] : n \in 0..MaxParts}}

UrlPaths ==
    { <<>>, <<"/", "a">>, <<"/", "a", ".", "g", "i", "f">>,
      <<"/", "p", "i", "c", ".", "G", "I", "F">>, <<"/", "a", ".">>,
      <<"/", "a", ".", "b", "/", "c">>, <<"/", "x", ".", "p", "n", "g">>,
      <<"/", "i", ".", "t", "a", "r", ".", "g", "z">> }

ExtInit ==
    /\ extCt \in ContentTypes
    /\ extPath \in UrlPaths
    /\ extOut = <<>> /\ extPc = "in"
    /\ SanIdle /\ RunIdle

ExtChoose ==
    /\ extPc = "in"
    /\ extOut' = ImageExt(extCt, extPath)
    /\ extPc' = "done"
    /\ UNCHANGED <<extCt, extPath, sanVars, runVars>>

ExtNext == ExtChoose

SpecExt == ExtInit /\ [][ExtNext]_vars

(***************************************************************************)
(* Claims about sanitizeFileName (checked under SpecSan).                  *)
(***************************************************************************)
NoAdjacentUnderscores(s) ==
    \A i \in 1..(Len(s) - 1) : ~(s[i] = "_" /\ s[i + 1] = "_")

\* C7: the result of sanitizeFileName contains no illegal character, no
\* whitespace character and no two adjacent underscores, and the title
\* "Hello: World / Test" yields "Hello_World_Test".
C7_SanitizedAsClaimed ==
    sanPc \in {"once", "twice"} =>
        /\ \A i \in 1..Len(sanOut) :
               sanOut[i] \notin IllegalChars /\ sanOut[i] \notin GoSpace
        /\ NoAdjacentUnderscores(sanOut)
        /\ sanIn = HelloWorldTest =>
               sanOut = <<"H", "e", "l", "l", "o", "_", "W", "o", "r", "l",
                          "d", "_", "T", "e", "s", "t">>

\* C8: sanitizeFileName is idempotent: applied to its own result it returns
\* that result unchanged.
C8_Idempotent == sanPc = "twice" => sanOut2 = sanOut

\* C8's case: the first pass changed the input and left an underscore at the
\* front of a result that still holds a non-ASCII whitespace character.
C8_Witness ==
    /\ sanPc = "twice"
    /\ sanOut # sanIn
    /\ Len(sanOut) > 1
    /\ sanOut[1] = "_"
    /\ \E i \in 1..Len(sanOut) : sanOut[i] = "U+00A0"

(***************************************************************************)
(* Claims about the extension of a localized image (checked under SpecExt).*)
(***************************************************************************)
\* the extension of the last element of path, stated by its position: the
\* suffix from a dot that no dot and no slash follows
LastDotSuffixes(path) ==
    {SubSeq(path, j, Len(path)) : j \in
        {k \in 1..Len(path) :
            /\ path[k] = "."
            /\ \A m \in (k + 1)..Len(path) : path[m] \notin {".", "/"}}}

\* C9: the extension is never empty and is chosen by the first match among
\* jpeg or jpg (.jpg), png, gif, webp, svg in the Content-Type, whatever the
\* URL path; with no match it is the extension of the URL path, and ".img"
\* only when that is empty too.
C9_ExtensionRule ==
    extPc = "done" =>
        LET jpg == Contains(extCt, <<"j", "p", "e", "g">>)
                      \/ Contains(extCt, <<"j", "p", "g">>)
            png == Contains(extCt, <<"p", "n", "g">>)
            gif == Contains(extCt, <<"g", "i", "f">>)
            webp == Contains(extCt, <<"w", "e", "b", "p">>)
            svg == Contains(extCt, <<"s", "v", "g">>)
        IN  /\ extOut # <<>>
            /\ jpg => extOut = <<".", "j", "p", "g">>
            /\ (~jpg /\ png) => extOut = <<".", "p", "n", "g">>
            /\ (~jpg /\ ~png /\ gif) => extOut = <<".", "g", "i", "f">>
            /\ (~jpg /\ ~png /\ ~gif /\ webp) =>
                   extOut = <<".", "w", "e", "b", "p">>
            /\ (~jpg /\ ~png /\ ~gif /\ ~webp /\ svg) =>
                   extOut = <<".", "s", "v", "g">>
            /\ (~jpg /\ ~png /\ ~gif /\ ~webp /\ ~svg) =>
                   IF LastDotSuffixes(extPath) # {}
                   THEN extOut \in LastDotSuffixes(extPath)
                   ELSE extOut = <<".", "i", "m", "g">>

\* C9's case: a Content-Type naming png and gif, fetched from a URL path
\* that ends in .gif, gives .png.
C9_Witness ==
    /\ extPc = "done"
    /\ Contains(extCt, <<"p", "n", "g">>)
    /\ Contains(extCt, <<"g", "i", "f">>)
    /\ extPath = <<"/", "a", ".", "g", "i", "f">>
    /\ extOut = <<".", "p", "n", "g">>

(***************************************************************************)
(* The names and paths of a localized image.                               *)
(***************************************************************************)
DigitChars == <<"0", "1", "2", "3", "4", "5", "6", "7", "8", "9">>

\* %d
RECURSIVE Decimal(_)
Decimal(n) ==
    IF n < 10 THEN <<DigitChars[n + 1]>>
    ELSE Decimal(n \div 10) \o <<DigitChars[(n % 10) + 1]>>

\* the width of %03d
PadWidth == 3

\* the flag 0 and the width of %03d: zeros in front, up to the width
RECURSIVE ZeroPad(_, _)
ZeroPad(s, w) == IF Len(s) >= w THEN s ELSE ZeroPad(<<"0">> \o s, w)

ImagePrefix == <<"i", "m", "a", "g", "e", "_">>

\* a name that keeps only the last three digits of the counter
imgFileNameThreeDigits(n, ext) ==
    ImagePrefix \o ZeroPad(Decimal(n % 1000), PadWidth) \o ext

\* fmt.Sprintf("image_%03d%s", imgCounter, ext)
imgFileName(n, ext) == ImagePrefix \o ZeroPad(Decimal(n), PadWidth) \o ext

\* the path e.AddImage returns for an internal file name
ImagePath(name) ==
    <<".", ".", "/", "i", "m", "a", "g", "e", "s", "/">> \o name

\* the title the EPUB program falls back to
HabrArticle ==
    <<"H", "a", "b", "r", " ", "A", "r", "t", "i", "c", "l", "e">>

\* url.Parse fails on a % that no two hexadecimal digits follow; the only
\* escapes of the model's references are lone % signs
UrlParseFails(ref) == \E i \in 1..Len(ref) : ref[i] = "%"

\* imgURL.Path: the model's references are absolute paths with no query and
\* no dot segments, which resolve to themselves
ResolvedPath(ref) == ref

(***************************************************************************)
(* What an invocation is given.                                            *)
(***************************************************************************)
MaxImgs == 2       \* most img elements of an article

Titles == { <<>>, <<" ">>, <<":">>, <<"M", "y", " ", "P">> }

GifRef == <<"/", "a", ".", "g", "i", "f">>

ImgRefs == { <<" ">>, <<"%">>, GifRef, <<" ", "/", "b">> }

NoSrcImg == [hasSrc |-> FALSE, src |-> <<>>, alt |-> "pic"]

GifImg == [hasSrc |-> TRUE, src |-> GifRef, alt |-> "pic"]

ImgElems ==
    {NoSrcImg} \cup {[hasSrc |-> TRUE, src |-> r, alt |-> "pic"] : r \in ImgRefs}

Docs(elems, n) == UNION {[1..k -> elems] : k \in 0..n}

\* the HTTP outcomes of the page fetch: a status, or no response at all
PageStatuses == {200, 404, 500, 0}

\* the Content-Type headers of the image responses: none, and image/png
RunContentTypes ==
    { <<>>, <<"i", "m", "a", "g", "e", "/", "p", "n", "g">> }

NoCur == [name |-> <<>>, data |-> <<>>]

(***************************************************************************)
(* The steps of main.                                                      *)
(***************************************************************************)
\* the invocations the model can hold
ProcIds == {1, 2}

\* invocation p runs and is at step where
At(p, where) == p \in procs /\ pc[p] = where

Goto(p, next) ==
    /\ pc' = [pc EXCEPT ![p] = next]
    /\ UNCHANGED <<exitCode, failStep>>

\* fmt.Fprintf(os.Stderr, ...); os.Exit(1)
Exit1(p, step) ==
    /\ pc' = [pc EXCEPT ![p] = "exit"]
    /\ exitCode' = [exitCode EXCEPT ![p] = 1]
    /\ failStep' = [failStep EXCEPT ![p] = step]

\* main returns
Exit0(p) ==
    /\ pc' = [pc EXCEPT ![p] = "exit"]
    /\ exitCode' = [exitCode EXCEPT ![p] = 0]
    /\ UNCHANGED failStep

Logged(p, step) ==
    /\ log' = [log EXCEPT ![p] = Append(@, step)]
    /\ UNCHANGED pageStatus

\* a page fetch that goes on whatever the status of the response
FetchPageAnyStatus(p) ==
    /\ At(p, "start")
    /\ \E status \in PageStatuses :
           /\ pageStatus' = [pageStatus EXCEPT ![p] = status]
           /\ IF status # 0 THEN Goto(p, "fetched") ELSE Exit1(p, "fetch")
    /\ log' = [log EXCEPT ![p] = Append(@, "fetch")]
    /\ UNCHANGED <<inVars, title, passVars, sanArg, outfs, sanVars, extVars>>

\* 1. Download the page: fetchURL
FetchPage(p) ==
    /\ At(p, "start")
    /\ \E status \in PageStatuses :
           /\ pageStatus' = [pageStatus EXCEPT ![p] = status]
           /\ IF status = 200 THEN Goto(p, "fetched") ELSE Exit1(p, "fetch")
    /\ log' = [log EXCEPT ![p] = Append(@, "fetch")]
    /\ UNCHANGED <<inVars, title, passVars, sanArg, outfs, sanVars, extVars>>

\* 2. Parse the base URL: url.Parse
ParseURL(p) ==
    /\ At(p, "fetched")
    /\ \E ok \in BOOLEAN :
           IF ok THEN Goto(p, "parsed") ELSE Exit1(p, "parseurl")
    /\ Logged(p, "parseurl")
    /\ UNCHANGED <<inVars, title, passVars, sanArg, outfs, sanVars, extVars>>

\* 3. Extract the main article: readability.FromReader
Extract(p) ==
    /\ At(p, "parsed")
    /\ \E ok \in BOOLEAN :
           IF ok THEN Goto(p, "extracted") ELSE Exit1(p, "extract")
    /\ Logged(p, "extract")
    /\ UNCHANGED <<inVars, title, passVars, sanArg, outfs, sanVars, extVars>>

\* 4. Prepare EPUB: the title, with its fallback
EpubTitle(t) == IF TrimSpace(t) = <<>> THEN HabrArticle ELSE t

\* 4. and 5.: the title, epub.NewEpub, goquery.NewDocumentFromReader and
\* imgCounter := 1
PrepareEpub(p) ==
    /\ At(p, "extracted")
    /\ mode[p] = "epub"
    /\ title' = [title EXCEPT ![p] = EpubTitle(articleTitle[p])]
    /\ \E ok \in BOOLEAN :
           IF ok
           THEN /\ Goto(p, "pass")
                /\ doc' = [doc EXCEPT ![p] = imgs[p]]
                /\ idx' = [idx EXCEPT ![p] = 1]
                /\ imgCounter' = [imgCounter EXCEPT ![p] = 1]
           ELSE /\ Exit1(p, "prepare")
                /\ UNCHANGED <<doc, idx, imgCounter>>
    /\ Logged(p, "prepare")
    /\ UNCHANGED <<inVars, cur, epubImages, tmpfs, visited, outcome, assigned,
                   sanArg, outfs, sanVars, extVars>>

(***************************************************************************)
(* The callback of doc.Find("img").Each, from its entry to the fetch.      *)
(***************************************************************************)
InCallback(p) == At(p, "pass") /\ idx[p] \in DOMAIN doc[p]

Element(p) == doc[p][idx[p]]

Visit(p) == visited' = [visited EXCEPT ![p] = Append(@, idx[p])]

\* return: Each goes on to the next element
Return(p, how) ==
    /\ idx' = [idx EXCEPT ![p] = @ + 1]
    /\ outcome' = [outcome EXCEPT ![p] = Append(@, how)]
    /\ cur' = [cur EXCEPT ![p] = NoCur]
    /\ Goto(p, "pass")

\* what a callback that returns before the name is made leaves alone
SkipUnchanged ==
    UNCHANGED <<inVars, title, doc, imgCounter, epubImages, tmpfs, assigned,
                sanArg, outfs, log, pageStatus, sanVars, extVars>>

\* if !exists { return }
ImgNoSrc(p) ==
    /\ InCallback(p)
    /\ ~Element(p).hasSrc
    /\ Visit(p) /\ Return(p, "nosrc") /\ SkipUnchanged

\* if src == "" { return }
ImgBlank(p) ==
    /\ InCallback(p)
    /\ Element(p).hasSrc
    /\ TrimSpace(Element(p).src) = <<>>
    /\ Visit(p) /\ Return(p, "blank") /\ SkipUnchanged

\* parsedURL.Parse(src) fails: return
ImgBadUrl(p) ==
    /\ InCallback(p)
    /\ Element(p).hasSrc
    /\ TrimSpace(Element(p).src) # <<>>
    /\ UrlParseFails(TrimSpace(Element(p).src))
    /\ Visit(p) /\ Return(p, "badurl") /\ SkipUnchanged

Fetchable(p) ==
    /\ InCallback(p)
    /\ Element(p).hasSrc
    /\ TrimSpace(Element(p).src) # <<>>
    /\ ~UrlParseFails(TrimSpace(Element(p).src))

\* a failed image fetch that ends the run
ImgFetchFailedAborts(p) ==
    /\ Fetchable(p)
    /\ Visit(p)
    /\ Exit1(p, "image")
    /\ UNCHANGED <<idx, outcome, cur>>
    /\ SkipUnchanged

\* fetchBinary fails (no response, or a status other than 200): return
ImgFetchFailed(p) ==
    /\ Fetchable(p)
    /\ Visit(p) /\ Return(p, "fetcherr") /\ SkipUnchanged

\* fetchBinary succeeds: the extension, imgFileName and imgCounter++
ImgFetched(p) ==
    /\ Fetchable(p)
    /\ \E ct \in RunContentTypes :
           LET ext == ImageExt(ct, ResolvedPath(TrimSpace(Element(p).src)))
               name == imgFileName(imgCounter[p], ext)
           IN  /\ cur' = [cur EXCEPT ![p] =
                     [name |-> name,
                      data |-> [by |-> p, img |-> idx[p], whole |-> TRUE]]]
               /\ assigned' = [assigned EXCEPT ![p] = Append(@, name)]
    /\ imgCounter' = [imgCounter EXCEPT ![p] = @ + 1]
    /\ Visit(p)
    /\ Goto(p, "store")
    /\ UNCHANGED <<inVars, title, doc, idx, epubImages, tmpfs, outcome, sanArg,
                   outfs, log, pageStatus, sanVars, extVars>>

(***************************************************************************)
(* The callback, from os.WriteFile to s.SetAttr.                           *)
(***************************************************************************)
Storing(p) == At(p, "store")

StoreUnchanged ==
    UNCHANGED <<inVars, title, imgCounter, visited, assigned, sanArg, outfs,
                log, pageStatus, sanVars, extVars>>

\* os.WriteFile(tmpPath, data, 0o600) fails, before the file is opened or
\* with a part of the data written: return
ImgWriteFailed(p) ==
    /\ Storing(p)
    /\ \E opened \in BOOLEAN :
           tmpfs' = IF opened
                    THEN (cur[p].name :> [cur[p].data EXCEPT !.whole = FALSE])
                             @@ tmpfs
                    ELSE tmpfs
    /\ Return(p, "writeerr")
    /\ UNCHANGED <<doc, epubImages>>
    /\ StoreUnchanged

\* os.WriteFile succeeds and e.AddImage fails (it does when the internal
\* file name is taken, or when the source cannot be read): return
ImgAddFailed(p) ==
    /\ Storing(p)
    /\ tmpfs' = (cur[p].name :> cur[p].data) @@ tmpfs
    /\ Return(p, "adderr")
    /\ UNCHANGED <<doc, epubImages>>
    /\ StoreUnchanged

\* an element whose src is left as it was
SrcKept(el, path) == el

\* s.SetAttr("src", imgPath)
SetSrc(el, path) == [el EXCEPT !.src = path]

\* os.WriteFile and e.AddImage succeed: s.SetAttr("src", imgPath)
ImgStored(p) ==
    /\ Storing(p)
    /\ cur[p].name \notin DOMAIN epubImages[p]
    /\ tmpfs' = (cur[p].name :> cur[p].data) @@ tmpfs
    /\ epubImages' = [epubImages EXCEPT ![p] =
                          (cur[p].name :> cur[p].data) @@ @]
    /\ doc' = [doc EXCEPT ![p][idx[p]] = SetSrc(@, ImagePath(cur[p].name))]
    /\ Return(p, "ok")
    /\ StoreUnchanged

(***************************************************************************)
(* The steps of main after the pass.                                       *)
(***************************************************************************)
PassOver(p) == At(p, "pass") /\ idx[p] \notin DOMAIN doc[p]

\* 6. Serialize modified HTML
Serialize(p) ==
    /\ PassOver(p)
    /\ \E ok \in BOOLEAN :
           IF ok THEN Goto(p, "serialized") ELSE Exit1(p, "serialize")
    /\ Logged(p, "serialize")
    /\ UNCHANGED <<inVars, title, passVars, sanArg, outfs, sanVars, extVars>>

\* 7. Add content as a chapter: e.AddSection
AddSection(p) ==
    /\ At(p, "serialized")
    /\ \E ok \in BOOLEAN :
           IF ok THEN Goto(p, "sectioned") ELSE Exit1(p, "section")
    /\ Logged(p, "section")
    /\ UNCHANGED <<inVars, title, passVars, sanArg, outfs, sanVars, extVars>>

\* what a write of the output file does: it succeeds, or fails before the
\* file is created, or fails with the file created and not whole
WriteResults == {"ok", "nofile", "partial"}

\* the package e.Write makes: the chapter's img elements, and each image
\* with the bytes its source file holds when it is read
Package(p) ==
    [by |-> p, whole |-> TRUE, content |-> doc[p],
     images |-> [n \in DOMAIN epubImages[p] |-> tmpfs[n]]]

PartialFile(p) == [by |-> p, whole |-> FALSE, content |-> <<>>, images |-> <<>>]

\* the file the Markdown program writes
MarkdownFile(p) ==
    [by |-> p, whole |-> TRUE, content |-> imgs[p], images |-> <<>>]

WriteOutput(p, fileName, file) ==
    \E res \in WriteResults :
        /\ outfs' = CASE res = "ok" -> (fileName :> file) @@ outfs
                      [] res = "partial" -> (fileName :> PartialFile(p)) @@ outfs
                      [] OTHER -> outfs
        /\ IF res = "ok" THEN Exit0(p) ELSE Exit1(p, "write")

DotEpub == <<".", "e", "p", "u", "b">>

DotMd == <<".", "m", "d">>

\* 8. Save EPUB: sanitizeFileName(title) + ".epub", e.Write(fullPath)
WriteEpub(p) ==
    /\ At(p, "sectioned")
    /\ sanArg' = [sanArg EXCEPT ![p] = title[p]]
    /\ WriteOutput(p, sanitizeFileName(title[p]) \o DotEpub, Package(p))
    /\ Logged(p, "write")
    /\ UNCHANGED <<inVars, title, passVars, sanVars, extVars>>

\* Markdown, 4.: converter.ConvertString(article.Content)
Convert(p) ==
    /\ At(p, "extracted")
    /\ mode[p] = "md"
    /\ \E ok \in BOOLEAN :
           IF ok THEN Goto(p, "converted") ELSE Exit1(p, "convert")
    /\ Logged(p, "convert")
    /\ UNCHANGED <<inVars, title, passVars, sanArg, outfs, sanVars, extVars>>

\* Markdown, 5. and 6.: sanitizeFileName(article.Title) + ".md", os.WriteFile
WriteMd(p) ==
    /\ At(p, "converted")
    /\ sanArg' = [sanArg EXCEPT ![p] = articleTitle[p]]
    /\ WriteOutput(p, sanitizeFileName(articleTitle[p]) \o DotMd, MarkdownFile(p))
    /\ Logged(p, "write")
    /\ UNCHANGED <<inVars, title, passVars, sanVars, extVars>>

(***************************************************************************)
(* Spec: one invocation, in either mode, from its start.                   *)
(***************************************************************************)
\* the locals of the invocations P, and the file systems, at the start
Started(P) ==
    /\ procs = P
    /\ pc = [p \in P |-> "start"]
    /\ title = [p \in P |-> <<>>]
    /\ doc = [p \in P |-> <<>>]
    /\ idx = [p \in P |-> 1]
    /\ imgCounter = [p \in P |-> 1]
    /\ cur = [p \in P |-> NoCur]
    /\ epubImages = [p \in P |-> <<>>]
    /\ sanArg = [p \in P |-> <<>>]
    /\ exitCode = [p \in P |-> -1]
    /\ failStep = [p \in P |-> "none"]
    /\ log = [p \in P |-> <<>>]
    /\ pageStatus = [p \in P |-> -1]
    /\ visited = [p \in P |-> <<>>]
    /\ outcome = [p \in P |-> <<>>]
    /\ assigned = [p \in P |-> <<>>]
    /\ tmpfs = <<>>
    /\ outfs = <<>>

Init ==
    /\ Started({1})
    /\ mode \in [{1} -> {"epub", "md"}]
    /\ articleTitle \in [{1} -> Titles]
    /\ imgs \in [{1} -> Docs(ImgElems, MaxImgs)]
    /\ SanIdle /\ ExtIdle

Before(p) == FetchPage(p) \/ ParseURL(p) \/ Extract(p)

Pass(p) ==
    \/ ImgNoSrc(p) \/ ImgBlank(p) \/ ImgBadUrl(p) \/ ImgFetchFailed(p)
    \/ ImgFetched(p) \/ ImgWriteFailed(p) \/ ImgAddFailed(p) \/ ImgStored(p)

After(p) == Serialize(p) \/ AddSection(p) \/ WriteEpub(p)

Epub(p) == Before(p) \/ PrepareEpub(p) \/ Pass(p) \/ After(p)

Markdown(p) == Convert(p) \/ WriteMd(p)

Next == \E p \in ProcIds : Epub(p) \/ Markdown(p)

Spec == Init /\ [][Next]_vars

(***************************************************************************)
(* SpecConc: two invocations of the EPUB program at once, on one machine:  *)
(* they share os.TempDir() and the -out directory.                         *)
(***************************************************************************)
MaxConcImgs == 1   \* most img elements of an article of SpecConc

ConcDocs == Docs(ImgElems, MaxConcImgs)

ConcInit ==
    /\ Started({1, 2})
    /\ mode = [p \in {1, 2} |-> "epub"]
    /\ articleTitle = [p \in {1, 2} |->
                          IF p = 1 THEN <<"M", "y", " ", "P">> ELSE <<":">>]
    /\ imgs \in [{1, 2} -> ConcDocs]
    /\ SanIdle /\ ExtIdle

ConcNext == \E p \in ProcIds : Epub(p)

SpecConc == ConcInit /\ [][ConcNext]_vars

(***************************************************************************)
(* SpecPass: one invocation of the EPUB program from the localization pass *)
(* on: at its start, or with the first ManyImgs images of the article      *)
(* localized (all fetched from GifRef with no Content-Type) and at most    *)
(* MaxPassImgs images left.                                                *)
(***************************************************************************)
ManyImgs == 1000   \* the images localized before the first state of SpecPass
MaxPassImgs == 1   \* most img elements left to the pass of SpecPass

PriorNames == [j \in 1..ManyImgs |-> imgFileName(j, ImageExt(<<>>, GifRef))]

PriorData(j) == [by |-> 1, img |-> j, whole |-> TRUE]

PriorFiles ==
    [n \in {PriorNames[j] : j \in 1..ManyImgs} |->
        PriorData(CHOOSE j \in 1..ManyImgs : PriorNames[j] = n)]

PriorDoc == [j \in 1..ManyImgs |-> SetSrc(GifImg, ImagePath(PriorNames[j]))]

\* the state of the pass after `done` images, which is 0 or ManyImgs
MidPass(done, rest) ==
    /\ procs = {1}
    /\ mode = [p \in {1} |-> "epub"]
    /\ articleTitle = [p \in {1} |-> <<"M", "y", " ", "P">>]
    /\ title = [p \in {1} |-> <<"M", "y", " ", "P">>]
    /\ imgs = [p \in {1} |-> [j \in 1..done |-> GifImg] \o rest]
    /\ doc = [p \in {1} |-> SubSeq(PriorDoc, 1, done) \o rest]
    /\ pc = [p \in {1} |-> "pass"]
    /\ idx = [p \in {1} |-> done + 1]
    /\ imgCounter = [p \in {1} |-> done + 1]
    /\ cur = [p \in {1} |-> NoCur]
    /\ epubImages = [p \in {1} |-> IF done = 0 THEN <<>> ELSE PriorFiles]
    /\ tmpfs = IF done = 0 THEN <<>> ELSE PriorFiles
    /\ outfs = <<>>
    /\ sanArg = [p \in {1} |-> <<>>]
    /\ exitCode = [p \in {1} |-> -1]
    /\ pageStatus = [p \in {1} |-> 200]
    /\ failStep = [p \in {1} |-> "none"]
    /\ log = [p \in {1} |-> <<"fetch", "parseurl", "extract", "prepare">>]
    /\ visited = [p \in {1} |-> [j \in 1..done |-> j]]
    /\ outcome = [p \in {1} |-> [j \in 1..done |-> "ok"]]
    /\ assigned = [p \in {1} |-> SubSeq(PriorNames, 1, done)]

PassInit ==
    /\ \E done \in {0, ManyImgs} :
           \E rest \in Docs(ImgElems, MaxPassImgs) : MidPass(done, rest)
    /\ SanIdle /\ ExtIdle

PassNext == \E p \in ProcIds : Pass(p) \/ After(p)

SpecPass == PassInit /\ [][PassNext]_vars

(***************************************************************************)
(* Claims about one invocation (checked under Spec).                       *)
(***************************************************************************)
\* invocation p has taken the step
Did(p, step) == \E i \in DOMAIN log[p] : log[p][i] = step

AllPositions(p) == [k \in 1..Len(imgs[p]) |-> k]

\* C1: in EPUB mode no image ends the run: once the pass has begun the run
\* can always take a next step, it stops with exit code 1 only at the
\* serialization, the section or the package write, and by the time it
\* serializes the callback has run for every image, in document order.
C1_ImageFailureNeverAborts ==
    \A p \in procs : mode[p] = "epub" =>
        /\ pc[p] \in {"pass", "store"} => ENABLED (Pass(p) \/ Serialize(p))
        /\ Did(p, "serialize") => visited[p] = AllPositions(p)
        /\ (pc[p] = "exit" /\ Did(p, "prepare") /\ failStep[p] # "prepare") =>
               /\ Did(p, "serialize")
               /\ failStep[p] \in {"none", "serialize", "section", "write"}
               /\ failStep[p] = "none" => exitCode[p] = 0

\* C1's case: a run whose first image could not be fetched and whose second
\* has a reference that does not parse, ended with exit code 0.
C1_Witness ==
    \E p \in procs :
        /\ mode[p] = "epub"
        /\ exitCode[p] = 0
        /\ outcome[p] = <<"fetcherr", "badurl">>

\* the positions whose img element the pass changed
Rewritten(p) == {k \in DOMAIN doc[p] : doc[p][k] # imgs[p][k]}

\* the extensions an image of the model can get
RunExts ==
    {ImageExt(ct, ResolvedPath(TrimSpace(r))) :
        ct \in RunContentTypes, r \in ImgRefs}

\* C2: after the pass the images whose src was rewritten are named
\* image_001, image_002, ..., image_K in document order with no number
\* skipped, K being the number of localized images.
C2_NamesContiguous ==
    \A p \in procs : (mode[p] = "epub" /\ Did(p, "serialize")) =>
        \A k \in Rewritten(p) :
            \E ext \in RunExts :
                doc[p][k].src =
                    ImagePath(imgFileName(
                        Cardinality({m \in Rewritten(p) : m <= k}), ext))

\* C3 as stated: after the pass an image whose fetch succeeded has the path
\* of its embedded copy as src, one whose fetch or resolution failed has its
\* original src, and nothing but src has changed.
C3_FetchedMeansRewritten ==
    \A p \in procs : (mode[p] = "epub" /\ Did(p, "serialize")) =>
        \A k \in DOMAIN doc[p] :
            /\ outcome[p][k] \in {"ok", "writeerr", "adderr"} =>
                   /\ doc[p][k].src # imgs[p][k].src
                   /\ \E n \in DOMAIN epubImages[p] : doc[p][k].src = ImagePath(n)
            /\ outcome[p][k] \in {"badurl", "fetcherr"} =>
                   doc[p][k].src = imgs[p][k].src
            /\ doc[p][k].alt = imgs[p][k].alt
            /\ doc[p][k].hasSrc = imgs[p][k].hasSrc

\* C3, amended: an image the callback has localized (fetch, temporary file
\* and AddImage all succeeded) has the path of its embedded copy as src; an
\* image the callback returned early for, at any step, is exactly as it was;
\* nothing but src is ever changed.
C3_LocalizedMeansRewritten ==
    \A p \in procs : mode[p] = "epub" =>
        \A k \in DOMAIN doc[p] :
            /\ (k \in DOMAIN outcome[p] /\ outcome[p][k] = "ok") =>
                   /\ doc[p][k].src # imgs[p][k].src
                   /\ \E n \in DOMAIN epubImages[p] :
                          /\ epubImages[p][n].img = k
                          /\ doc[p][k].src = ImagePath(n)
            /\ (k \in DOMAIN outcome[p] /\ outcome[p][k] # "ok") =>
                   doc[p][k] = imgs[p][k]
            /\ doc[p][k].alt = imgs[p][k].alt
            /\ doc[p][k].hasSrc = imgs[p][k].hasSrc

\* C3's case: after the pass, a first image that was localized and a second
\* that was fetched and could not be written to its temporary file.
C3_Witness ==
    \E p \in procs :
        /\ Did(p, "serialize")
        /\ outcome[p] = <<"ok", "writeerr">>

\* the steps of main, in the order of the code
MainSteps(m) ==
    IF m = "epub"
    THEN <<"fetch", "parseurl", "extract", "prepare", "serialize", "section",
           "write">>
    ELSE <<"fetch", "parseurl", "extract", "convert", "write">>

IsPrefix(s, t) == Len(s) <= Len(t) /\ s = SubSeq(t, 1, Len(s))

WholeFileOf(p) == \E f \in DOMAIN outfs : outfs[f].by = p /\ outfs[f].whole

\* C4 as stated: a run ends with the whole output file written and exit
\* code 0, or with exit code 1 and no output file; a page fetch with a
\* status other than 200 ends it with exit code 1; no step is taken twice.
C4_AllOrNothing ==
    \A p \in procs :
        /\ pc[p] = "exit" =>
               \/ exitCode[p] = 0 /\ WholeFileOf(p)
               \/ exitCode[p] = 1 /\ DOMAIN outfs = {}
        /\ pageStatus[p] \notin {-1, 200} => exitCode[p] = 1
        /\ IsPrefix(log[p], MainSteps(mode[p]))

\* C4, amended: a run ends with the whole output file written and exit code
\* 0, or with exit code 1; a run that fails before its final write (a page
\* fetch with a status other than 200 among them) creates no output file,
\* and one that fails in its final write leaves no whole output file; the
\* steps are taken in the order of the code, each at most once, and the run
\* ends at the first step that fails.
C4_NoOutputBeforeFinalWrite ==
    \A p \in procs :
        /\ pc[p] = "exit" <=> exitCode[p] \in {0, 1}
        /\ exitCode[p] = 0 =>
               WholeFileOf(p) /\ log[p] = MainSteps(mode[p])
        /\ exitCode[p] = 1 =>
               /\ log[p][Len(log[p])] = failStep[p]
               /\ failStep[p] # "write" => DOMAIN outfs = {}
               /\ ~WholeFileOf(p)
        /\ pageStatus[p] \notin {-1, 200} =>
               exitCode[p] = 1 /\ failStep[p] = "fetch"
        /\ IsPrefix(log[p], MainSteps(mode[p]))

\* C4's case: a Markdown run that failed in its final write, with exit code
\* 1 and a file in the output directory.
C4_Witness ==
    \E p \in procs :
        /\ mode[p] = "md"
        /\ exitCode[p] = 1
        /\ failStep[p] = "write"
        /\ DOMAIN outfs # {}

\* C6: in both modes, when the extracted title is empty or blank the string
\* given to sanitizeFileName is a fallback that is not, and the base name of
\* the output file is never empty.
C6_FallbackBeforeSanitizing ==
    \A p \in procs : Did(p, "write") =>
        /\ TrimSpace(articleTitle[p]) = <<>> => TrimSpace(sanArg[p]) # <<>>
        /\ sanitizeFileName(sanArg[p]) # <<>>
        /\ \A f \in DOMAIN outfs : f \notin {DotEpub, DotMd}

(***************************************************************************)
(* The claim about two invocations at once (checked under SpecConc).       *)
(***************************************************************************)
\* C5: every image of an invocation's package holds the bytes that
\* invocation fetched for it, and until the package is written the
\* temporary file of each of its images holds what it wrote there.
C5_NoInterference ==
    \A p \in procs :
        /\ exitCode[p] = 0 =>
               \A f \in DOMAIN outfs :
                   (outfs[f].by = p /\ outfs[f].whole) =>
                       outfs[f].images = epubImages[p]
        /\ pc[p] # "exit" =>
               \A n \in DOMAIN epubImages[p] : tmpfs[n] = epubImages[p][n]

(***************************************************************************)
(* The claim about the names of one run (checked under SpecPass).          *)
(***************************************************************************)
\* C10: within one run the counter is one more than the number of names
\* given, no name is given twice, the temporary file of every image taken
\* into the package keeps the bytes written for that image until the package
\* is written, and the package holds those bytes.
C10_NamesUnique ==
    \A p \in procs :
        /\ imgCounter[p] = Len(assigned[p]) + 1
        /\ Cardinality({assigned[p][i] : i \in DOMAIN assigned[p]})
               = Len(assigned[p])
        /\ pc[p] # "exit" =>
               \A n \in DOMAIN epubImages[p] : tmpfs[n] = epubImages[p][n]
        /\ exitCode[p] = 0 =>
               \A f \in DOMAIN outfs : outfs[f].images = epubImages[p]

\* C10's case: a run that gave more than 999 names, the last of them to an
\* image that did not end up in the package, and ended with exit code 0.
C10_Witness ==
    \E p \in procs :
        /\ Len(assigned[p]) > 999
        /\ outcome[p][Len(outcome[p])] = "writeerr"
        /\ exitCode[p] = 0

====
